---- MODULE Spec2Model ----
(***************************************************************************)
(* DH-PSI between two clinics, optionally through the Oblivious relay.     *)
(*                                                                         *)
(* The group is scaled down: P is a small safe prime (P = 2q + 1, q = 11)  *)
(* with P = 7 (mod 8), so that G = 2 generates the subgroup of order q, as *)
(* it does for the MODP prime of utils.ts.  The 256-bit digest and the 32  *)
(* random bytes are scaled to ranges below q, as 2^256 is below the real q.*)
(***************************************************************************)
EXTENDS Integers, Sequences, FiniteSets, TLC

VARIABLES
  data,     \* clinic -> its records, as loaded from --data
  secret,   \* clinic -> its private exponent
  K,        \* the private exponent of the relay
  store,    \* the relay's store: label -> uploaded items
  run,      \* clinic -> the state of its GET /run handler
  net,      \* the last request served by the relay, with its response
  uploads,  \* history: label -> the most recent upload
  alg,      \* the values of a chain of exponentiations
  call      \* a call in progress or just made: arguments, locals, result

vars == <<data, secret, K, store, run, net, uploads, alg, call>>

(***************************************************************************)
(* utils.ts                                                                *)
(***************************************************************************)
P == 23

G == 2

\* Number of values crypto.randomBytes(32) can deliver (2^256, scaled).
RandomBytesSpace == 3

Identifiers == {"P1", "P2", "P3"}

\* SHA-256 digest of an identifier as an integer: a collision-free table.
Sha256(id) ==
  CASE id = "P1" -> 3
    [] id = "P2" -> 7
    [] id = "P3" -> 0
    [] OTHER -> 5

hashToBigInt(id) == Sha256(id) % (P - 1)

randomSecret(bytes) == (bytes % (P - 2)) + 2

\* bigint-crypto-utils randBetween(max, min) raises RangeError unless max > min.
RangeError == -2

\* randBetween(max, min): a value of [min, max], chosen by r
randBetween(max, min, r) ==
  IF max <= min THEN RangeError ELSE min + (r % (max - min + 1))

\* randomSecret of the shorter utils.ts: bigintCrypto.randBetween(2, P - 2)
randomSecretRandBetween(r) == randBetween(2, P - 2, r)

\* bigint-crypto-utils modPow(b, e, n) for e >= 0: square and multiply.
RECURSIVE ModPowLoop(_, _, _, _)
ModPowLoop(b, e, n, r) ==
  IF e = 0 THEN r
  ELSE ModPowLoop((b * b) % n, e \div 2, n, IF e % 2 = 1 THEN (r * b) % n ELSE r)

modPow(base, exp) == IF P = 1 THEN 0 ELSE ModPowLoop(base % P, exp, P, 1)

(***************************************************************************)
(* Decimal strings: a string is a sequence of one-character strings.       *)
(***************************************************************************)
DigitChars == <<"0", "1", "2", "3", "4", "5", "6", "7", "8", "9">>

DigitValue(c) ==
  CASE c = "0" -> 0 [] c = "1" -> 1 [] c = "2" -> 2 [] c = "3" -> 3 [] c = "4" -> 4
    [] c = "5" -> 5 [] c = "6" -> 6 [] c = "7" -> 7 [] c = "8" -> 8 [] c = "9" -> 9

IsDigit(c) == \E k \in 1..10 : DigitChars[k] = c

\* bigint.toString() of a non-negative value
RECURSIVE toString(_)
toString(n) ==
  IF n < 10 THEN <<DigitChars[n + 1]>>
  ELSE toString(n \div 10) \o <<DigitChars[(n % 10) + 1]>>

\* BigInt(string) raises SyntaxError on a string that is no integer literal.
SyntaxError == -1

RECURSIVE ParseDigits(_, _)
ParseDigits(s, acc) ==
  IF s = <<>> THEN acc
  ELSE ParseDigits(Tail(s), acc * 10 + DigitValue(Head(s)))

BigInt(s) ==
  IF \A k \in 1..Len(s) : IsDigit(s[k]) THEN ParseDigits(s, 0) ELSE SyntaxError

(***************************************************************************)
(* A JS Map: a sequence of <<key, value>> pairs in insertion order, keys   *)
(* unique; set() of a present key replaces its value in place.             *)
(***************************************************************************)
MapKeys(m) == {m[k][1] : k \in 1..Len(m)}

MapHas(m, key) == key \in MapKeys(m)

MapGet(m, key) == m[CHOOSE k \in 1..Len(m) : m[k][1] = key][2]

MapSet(m, key, v) ==
  IF MapHas(m, key)
  THEN [k \in 1..Len(m) |-> IF m[k][1] = key THEN <<key, v>> ELSE m[k]]
  ELSE Append(m, <<key, v>>)

RECURSIVE MapFromEntries(_, _)
MapFromEntries(entries, m) ==
  IF entries = <<>> THEN m
  ELSE MapFromEntries(Tail(entries), MapSet(m, Head(entries)[1], Head(entries)[2]))

\* [...map].map(([id, v]) => ({ id, v: v.toString() }))
MapToItems(m) == [k \in 1..Len(m) |-> [id |-> m[k][1], v |-> toString(m[k][2])]]

\* new Map(body.map(x => [x.id, BigInt(x.v)]))
ItemsToMap(items) ==
  MapFromEntries([k \in 1..Len(items) |-> <<items[k].id, BigInt(items[k].v)>>], <<>>)

ItemsParse(items) == \A k \in 1..Len(items) : BigInt(items[k].v) # SyntaxError

(***************************************************************************)
(* psi.ts                                                                  *)
(***************************************************************************)
\* Mutant: the secret added to the hash instead of multiplied with it.
BlindValueSum(id, sec) == modPow(G, hashToBigInt(id) + sec)

\* G^(hash(id) * secret) mod P
BlindValue(id, sec) == modPow(G, hashToBigInt(id) * sec)

RECURSIVE BlindLoop(_, _, _)
BlindLoop(ids, sec, out) ==
  IF ids = <<>> THEN out
  ELSE BlindLoop(Tail(ids), sec, MapSet(out, Head(ids), BlindValue(Head(ids), sec)))

\* Mutant: the result collected in a list, one entry per element of ids.
computeBlindedPerElement(ids, sec) ==
  [k \in 1..Len(ids) |-> <<ids[k], BlindValue(ids[k], sec)>>]

computeBlinded(ids, sec) == BlindLoop(ids, sec, <<>>)

\* Mutant: the label of the scanned entry is reported.
ScanLoopScannedLabel(b, index, result) ==
  [k \in 1..Len(SelectSeq(b, LAMBDA e : MapHas(index, toString(e[2])))) |->
     SelectSeq(b, LAMBDA e : MapHas(index, toString(e[2])))[k][1]]

\* Mutant: base and exponent swapped.
ReExpValueSwapped(v, sec) == modPow(sec, v)

\* v^secret mod P
ReExpValue(v, sec) == modPow(v, sec)

reExponentiate(map, sec) ==
  [k \in 1..Len(map) |-> <<map[k][1], ReExpValue(map[k][2], sec)>>]

\* index.set(v.toString(), id) for every entry of a, in order
RECURSIVE IndexLoop(_, _)
IndexLoop(a, index) ==
  IF a = <<>> THEN index
  ELSE IndexLoop(Tail(a), MapSet(index, toString(Head(a)[2]), Head(a)[1]))

RECURSIVE ScanLoop(_, _, _)
ScanLoop(b, index, result) ==
  IF b = <<>> THEN result
  ELSE ScanLoop(Tail(b), index,
                IF MapHas(index, toString(Head(b)[2]))
                THEN Append(result, MapGet(index, toString(Head(b)[2])))
                ELSE result)

intersect(a, b) == ScanLoop(b, IndexLoop(a, <<>>), <<>>)

(***************************************************************************)
(* oblivious.ts: the relay                                                 *)
(***************************************************************************)
Clinics == {"A", "B"}

\* clinic === "A" ? "B" : "A"
Counterpart(clinic) == IF clinic = "A" THEN "B" ELSE "A"

Ok(body) == [status |-> 200, body |-> body]

\* Fastify answers a handler that throws with status 500 and an error object.
InternalError == [status |-> 500, body |-> <<>>]

\* Fastify refuses a request body larger than its bodyLimit.
PayloadTooLarge == [status |-> 413, body |-> <<>>]

\* The key K of the relay, from the 32 random bytes.
ObliviousKey(bytes) == bytes

\* Mutant: the new items are added to the stored ones.
UploadStoreAppend(st, clinic, items) ==
  [l \in (DOMAIN st) \cup {clinic} |->
     IF l = clinic THEN (IF clinic \in DOMAIN st THEN st[clinic] \o items ELSE items)
     ELSE st[l]]

\* Mutant: an upload starts the store anew, with the uploaded label only.
UploadStoreClearsOthers(st, clinic, items) == [l \in {clinic} |-> items]

\* store[clinic] = items
UploadStore(st, clinic, items) ==
  [l \in (DOMAIN st) \cup {clinic} |-> IF l = clinic THEN items ELSE st[l]]

\* if (!me || !other) return [];
NotBothUploaded(st, clinic) ==
  clinic \notin DOMAIN st \/ Counterpart(clinic) \notin DOMAIN st

\* Mutant: the selector read the wrong way round.
ProcessedBaseSwapped(st, clinic, type) ==
  IF type = "own" THEN st[Counterpart(clinic)] ELSE st[clinic]

\* const base = type === "own" ? me : other;
ProcessedBase(st, clinic, type) ==
  IF type = "own" THEN st[clinic] ELSE st[Counterpart(clinic)]

\* Mutant: the key itself is written into the item.
ProcessItemWritesKey(item, key) == [id |-> item.id, v |-> toString(key)]

\* out.push({ id: item.id, v: (v^K mod P).toString() })
ProcessItem(item, key) ==
  [id |-> item.id, v |-> toString(modPow(BigInt(item.v), key))]

\* Mutant: a missing upload is answered as an error.
ProcessedHandlerThrows(st, key, clinic, type) ==
  IF NotBothUploaded(st, clinic) THEN InternalError
  ELSE LET base == ProcessedBase(st, clinic, type) IN
       IF ~ItemsParse(base) THEN InternalError
       ELSE Ok([k \in 1..Len(base) |-> ProcessItem(base[k], key)])

\* Mutant: the loop starts at the second item.
ProcessedHandlerSkipsFirst(st, key, clinic, type) ==
  IF NotBothUploaded(st, clinic) THEN Ok(<<>>)
  ELSE LET base == ProcessedBase(st, clinic, type) IN
       IF ~ItemsParse(base) THEN InternalError
       ELSE Ok([k \in 1..(Len(base) - 1) |-> ProcessItem(base[k + 1], key)])

ProcessedHandler(st, key, clinic, type) ==
  IF NotBothUploaded(st, clinic) THEN Ok(<<>>)
  ELSE LET base == ProcessedBase(st, clinic, type) IN
       IF ~ItemsParse(base) THEN InternalError
       ELSE Ok([k \in 1..Len(base) |-> ProcessItem(base[k], key)])

(***************************************************************************)
(* clinicServer.ts: the request handlers of a clinic                       *)
(***************************************************************************)
\* data.map(d => d.id)
DataIds(c) == [k \in 1..Len(data[c]) |-> data[c][k].id]

IdSet(c) == {data[c][k].id : k \in 1..Len(data[c])}

BlindedHandler(c) == Ok(MapToItems(computeBlinded(DataIds(c), secret[c])))

ReexpHandler(c, body) ==
  IF ~ItemsParse(body) THEN InternalError
  ELSE Ok(MapToItems(reExponentiate(ItemsToMap(body), secret[c])))

(***************************************************************************)
(* stats.ts and the statistics of GET /run                                 *)
(***************************************************************************)
RECURSIVE SumSeq(_)
SumSeq(values) == IF values = <<>> THEN 0 ELSE Head(values) + SumSeq(Tail(values))

\* A JS number that is a quotient, NaN (0 / 0) or null.
Quotient(n, d) == [tag |-> "number", num |-> n, den |-> d]
NaN == [tag |-> "NaN", num |-> 0, den |-> 0]
Null == [tag |-> "null", num |-> 0, den |-> 0]

\* values.reduce((a, b) => a + b, 0) / values.length
average(values) ==
  IF Len(values) = 0 THEN NaN ELSE Quotient(SumSeq(values), Len(values))

\* ages.length ? ages.reduce((a, b) => a + b, 0) / ages.length : null
averageOrNull(values) ==
  IF Len(values) = 0 THEN Null ELSE Quotient(SumSeq(values), Len(values))

SeqToSet(s) == {s[k] : k \in 1..Len(s)}

\* data.filter(d => ids.includes(d.id)).map(d => d.age)
RECURSIVE AgesOf(_, _)
AgesOf(records, ids) ==
  IF records = <<>> THEN <<>>
  ELSE (IF Head(records).id \in SeqToSet(ids) THEN <<Head(records).age>> ELSE <<>>)
       \o AgesOf(Tail(records), ids)

IntersectionResult(ids, avg) ==
  [kind |-> "intersection", intersection |-> ids, size |-> Len(ids), averageAge |-> avg]

\* return { error: String(err) } of the catch block of the relay-mode /run
ErrorResult == [kind |-> "error", intersection |-> <<>>, size |-> 0, averageAge |-> Null]

\* the two-party /run has no catch: Fastify answers the caller with status 500
UncaughtResult == [kind |-> "http500", intersection |-> <<>>, size |-> 0, averageAge |-> Null]

NoResult == [kind |-> "none", intersection |-> <<>>, size |-> 0, averageAge |-> Null]

(***************************************************************************)
(* Start of the processes                                                  *)
(***************************************************************************)
\* Largest number of records of a dataset.
MaxRecords == 2

RandomBytes == 0..(RandomBytesSpace - 1)

\* The age attribute of a record (the attribute values of A and B differ).
AgeOf(c, id) ==
  CASE id = "P1" -> IF c = "A" THEN 30 ELSE 35
    [] id = "P2" -> IF c = "A" THEN 40 ELSE 45
    [] OTHER -> IF c = "A" THEN 50 ELSE 55

\* The identifier columns of the datasets: up to MaxRecords records with
\* distinct identifiers, and the datasets that hold one identifier twice.
DistinctSeqs ==
  {s \in UNION {[1..n -> Identifiers] : n \in 0..MaxRecords} :
     \A k1, k2 \in 1..Len(s) : s[k1] = s[k2] => k1 = k2}

RepeatedSeqs == {<<id, id>> : id \in Identifiers}

IdSeqs == DistinctSeqs \cup RepeatedSeqs

Records(c, ids) == [k \in 1..Len(ids) |-> [id |-> ids[k], age |-> AgeOf(c, ids[k])]]

\* A round trip of a run: the request sent and the response received.
NoTrip == [to |-> "", path |-> "", req |-> <<>>, status |-> 0, resp |-> <<>>]

RoundTrip(to, path, req, resp) ==
  [to |-> to, path |-> path, req |-> req, status |-> resp.status, resp |-> resp.body]

\* netFailed: a round trip of the run was unreachable or answered without success.
\* steps: the steps a suspended two-party run has taken so far.
IdleRun ==
  [pc |-> "idle", softFailed |-> FALSE, netFailed |-> FALSE, re1 |-> <<>>,
   own |-> <<>>, result |-> NoResult, trip |-> NoTrip, steps |-> <<>>]

NoRequest ==
  [path |-> "none", clinic |-> "", type |-> "", items |-> <<>>,
   status |-> 0, body |-> <<>>]

\* No call of the pure functions or of the stepped handler is observed.
NoCall == [fn |-> "none", a |-> <<>>, b |-> <<>>, out |-> <<>>]

NoAlg ==
  [pc |-> "off", a |-> 0, b |-> 0, k |-> 0, i |-> "", j |-> "",
   ia |-> <<>>, ib |-> <<>>, jb |-> <<>>, ik |-> <<>>, iab |-> <<>>, iba |-> <<>>,
   iaK |-> <<>>, jbK |-> <<>>, ika |-> <<>>, iaKb |-> <<>>, jbKa |-> <<>>]

\* History of the uploads: per label the items of the latest upload, and whether
\* it came after an upload of other items under the same label.
RecordUpload(up, clinic, items) ==
  [l \in (DOMAIN up) \cup {clinic} |->
     IF l = clinic
     THEN [items |-> items,
           overwrote |-> clinic \in DOMAIN up /\ up[clinic].items # items]
     ELSE up[l]]

\* const data = JSON.parse(...); const secret = randomSecret();
ClinicsInit ==
  /\ \E sa \in IdSeqs, sb \in IdSeqs :
       data = [c \in Clinics |-> Records(c, IF c = "A" THEN sa ELSE sb)]
  /\ \E xa \in RandomBytes, xb \in RandomBytes :
       secret = [c \in Clinics |-> randomSecret(IF c = "A" THEN xa ELSE xb)]
  /\ run = [c \in Clinics |-> IdleRun]

\* const K = ...; const store = {};
ObliviousInit ==
  /\ \E x \in RandomBytes : K = ObliviousKey(x)
  /\ store = <<>>
  /\ uploads = <<>>
  /\ net = NoRequest

\* Mutant: a request draws the exponent again.
ConstBindingRegenerated(v) == randomSecret(v)

\* const secret = randomSecret(); const K = ...: no handler assigns the binding.
ConstBinding(v) == v

\* What a request leaves of the exponents of the three processes.
SecretsKept ==
  /\ secret' = [c \in Clinics |-> ConstBinding(secret[c])]
  /\ K' = ConstBinding(K)

NoClinics ==
  /\ data = [c \in Clinics |-> <<>>]
  /\ secret = [c \in Clinics |-> 0]
  /\ run = [c \in Clinics |-> IdleRun]

NoOblivious ==
  /\ K = 0
  /\ store = <<>>
  /\ uploads = <<>>
  /\ net = NoRequest

(***************************************************************************)
(* GET /run of the two-party clinic server                                 *)
(***************************************************************************)
\* The handler returns (or throws): only its outcome is left.
Finish(c, result, trip) ==
  run' = [run EXCEPT ![c] = [IdleRun EXCEPT !.pc = "done", !.result = result,
                                            !.trip = trip,
                                            !.softFailed = run[c].softFailed,
                                            !.netFailed = run[c].netFailed
                                                          \/ trip.status # 200]]

\* Paso 1, 2: fetch the peer's blinded values and re-exponentiate them.
\* reachable = FALSE: fetch rejects, and nothing catches it.
TwoFetchBlinded(c, reachable) ==
  /\ run[c].pc = "idle"
  /\ LET resp == BlindedHandler(Counterpart(c))
         trip == RoundTrip(Counterpart(c), "/blinded", <<>>, resp)
     IN IF ~reachable THEN Finish(c, UncaughtResult, NoTrip)
        ELSE IF resp.status # 200 \/ ~ItemsParse(resp.body)
        THEN Finish(c, UncaughtResult, trip)
        ELSE run' = [run EXCEPT
               ![c].pc = "gotPeer",
               ![c].re1 = reExponentiate(ItemsToMap(resp.body), secret[c]),
               ![c].trip = trip,
               ![c].steps = <<"FetchPeerBlinded", "LocalReExponentiate">>]
  /\ SecretsKept /\ UNCHANGED <<data, store, net, uploads, alg, call>>

\* Paso 3..7: blind the own identifiers, have the peer re-exponentiate them,
\* intersect and average.
TwoSendReexp(c, reachable) ==
  /\ run[c].pc = "gotPeer"
  /\ LET mine == computeBlinded(DataIds(c), secret[c])
         req == MapToItems(mine)
         resp == ReexpHandler(Counterpart(c), req)
         trip == RoundTrip(Counterpart(c), "/reexp", req, resp)
         re2 == ItemsToMap(resp.body)
         ids == intersect(run[c].re1, re2)
     IN IF ~reachable THEN Finish(c, UncaughtResult, NoTrip)
        ELSE IF resp.status # 200 \/ ~ItemsParse(resp.body)
        THEN Finish(c, UncaughtResult, trip)
        ELSE Finish(c, IntersectionResult(ids, average(AgesOf(data[c], ids))), trip)
  /\ SecretsKept /\ UNCHANGED <<data, store, net, uploads, alg, call>>

\* The reply reaches the caller; the handler is over.
RunReturn(c) ==
  /\ run[c].pc = "done"
  /\ run' = [run EXCEPT ![c] = IdleRun]
  /\ SecretsKept /\ UNCHANGED <<data, store, net, uploads, alg, call>>

TwoInit == ClinicsInit /\ NoOblivious /\ alg = NoAlg /\ call = NoCall

TwoNext ==
  \E c \in Clinics :
    \/ \E reachable \in BOOLEAN : TwoFetchBlinded(c, reachable)
    \/ \E reachable \in BOOLEAN : TwoSendReexp(c, reachable)
    \/ RunReturn(c)

SpecTwoParty == TwoInit /\ [][TwoNext]_vars

\* The same runs with the scheduling the code gives: a handler that can return
\* does return.  An awaited fetch carries no timer (no signal, no timeout), so
\* nothing forces a round trip to complete or to be given up.
SpecTwoPartyLive == SpecTwoParty /\ \A c \in Clinics : WF_vars(RunReturn(c))

(***************************************************************************)
(* GET /run of the relay-mode clinic server.  Every error thrown inside    *)
(* the handler is caught and returned as { error }.                        *)
(***************************************************************************)
\* 1), 2): blind the own identifiers and upload them.  The response of the
\* relay is not looked at.
RelayUpload(c, reachable) ==
  /\ run[c].pc = "idle"
  /\ LET mineMap == computeBlinded(DataIds(c), secret[c])
         minePayload == MapToItems(mineMap)
         trip == RoundTrip("O", "/upload", minePayload, Ok(<<>>))
     IN IF ~reachable
        THEN /\ Finish(c, ErrorResult, NoTrip)
             /\ UNCHANGED <<store, uploads>>
        ELSE /\ store' = UploadStore(store, c, minePayload)
             /\ uploads' = RecordUpload(uploads, c, minePayload)
             /\ run' = [run EXCEPT ![c].pc = "uploaded",
                                   ![c].trip = trip]
  /\ SecretsKept /\ UNCHANGED <<data, net, alg, call>>

\* 2) when the relay refuses the upload (Fastify answers a body over its
\* bodyLimit with status 413 and stores nothing): fetch resolves, the response
\* is not looked at and the run goes on.
RelayUploadRejected(c) ==
  /\ run[c].pc = "idle"
  /\ LET minePayload == MapToItems(computeBlinded(DataIds(c), secret[c]))
     IN run' = [run EXCEPT
          ![c].pc = "uploaded",
          ![c].netFailed = TRUE,
          ![c].trip = RoundTrip("O", "/upload", minePayload, PayloadTooLarge)]
  /\ SecretsKept /\ UNCHANGED <<data, store, net, uploads, alg, call>>

\* 3), 4): fetch the peer's values raised to K and raise them to the own secret.
RelayFetchPeer(c, reachable) ==
  /\ run[c].pc = "uploaded"
  /\ LET resp == ProcessedHandler(store, K, c, "peer")
         trip == RoundTrip("O", "/processed?type=peer", <<>>, resp)
     IN IF ~reachable THEN Finish(c, ErrorResult, NoTrip)
        ELSE IF resp.status # 200 \/ ~ItemsParse(resp.body)
        THEN Finish(c, ErrorResult, trip)
        ELSE run' = [run EXCEPT
               ![c].pc = "gotPeer",
               ![c].softFailed = NotBothUploaded(store, c),
               ![c].re1 = reExponentiate(ItemsToMap(resp.body), secret[c]),
               ![c].trip = trip]
  /\ SecretsKept /\ UNCHANGED <<data, store, net, uploads, alg, call>>

\* Mutant: the own values are fetched right after the upload, the peer's never.
RelayFetchOwnFirst(c, reachable) ==
  /\ run[c].pc = "uploaded"
  /\ LET resp == ProcessedHandler(store, K, c, "own")
         trip == RoundTrip("O", "/processed?type=own", <<>>, resp)
     IN IF ~reachable THEN Finish(c, ErrorResult, NoTrip)
        ELSE run' = [run EXCEPT ![c].pc = "gotOwn", ![c].own = resp, ![c].trip = trip]
  /\ SecretsKept /\ UNCHANGED <<data, store, net, uploads, alg, call>>

\* 5): fetch the own values raised to K.
RelayFetchOwn(c, reachable) ==
  /\ run[c].pc = "gotPeer"
  /\ LET resp == ProcessedHandler(store, K, c, "own")
         trip == RoundTrip("O", "/processed?type=own", <<>>, resp)
     IN IF ~reachable THEN Finish(c, ErrorResult, NoTrip)
        ELSE run' = [run EXCEPT
               ![c].pc = "gotOwn",
               ![c].softFailed = run[c].softFailed \/ NotBothUploaded(store, c),
               ![c].netFailed = run[c].netFailed \/ resp.status # 200,
               ![c].own = resp,
               ![c].trip = trip]
  /\ SecretsKept /\ UNCHANGED <<data, store, net, uploads, alg, call>>

\* 6), 7), 8): send them to the peer for the final exponent, intersect, average.
\* JSON.stringify(ownProcessed) of an error object is no list: the peer's /reexp
\* throws on body.map and answers 500.
RelaySendOwn(c, reachable) ==
  /\ run[c].pc = "gotOwn"
  /\ LET req == run[c].own.body
         resp == IF run[c].own.status # 200 THEN InternalError
                 ELSE ReexpHandler(Counterpart(c), req)
         trip == RoundTrip(Counterpart(c), "/reexp", req, resp)
         re2 == ItemsToMap(resp.body)
         ids == intersect(run[c].re1, re2)
     IN IF ~reachable THEN Finish(c, ErrorResult, NoTrip)
        ELSE IF resp.status # 200 \/ ~ItemsParse(resp.body)
        THEN Finish(c, ErrorResult, trip)
        ELSE Finish(c, IntersectionResult(ids, averageOrNull(AgesOf(data[c], ids))),
                    trip)
  /\ SecretsKept /\ UNCHANGED <<data, store, net, uploads, alg, call>>

RelayRunInit == ClinicsInit /\ ObliviousInit /\ alg = NoAlg /\ call = NoCall

RelayRunNext ==
  \E c \in Clinics :
    \/ \E reachable \in BOOLEAN : RelayUpload(c, reachable)
    \/ \E reachable \in BOOLEAN : RelayFetchPeer(c, reachable)
    \/ \E reachable \in BOOLEAN : RelayFetchOwn(c, reachable)
    \/ \E reachable \in BOOLEAN : RelaySendOwn(c, reachable)
    \/ RunReturn(c)

SpecRelayRun == RelayRunInit /\ [][RelayRunNext]_vars

\* The relay-mode runs when the relay may also refuse an upload, over the
\* datasets of at most one record.
RelayFaultsInit == RelayRunInit /\ \A c \in Clinics : Len(data[c]) <= 1

RelayFaultsNext == RelayRunNext \/ \E c \in Clinics : RelayUploadRejected(c)

SpecRelayFaults == RelayFaultsInit /\ [][RelayFaultsNext]_vars

(***************************************************************************)
(* The relay alone, serving any client                                     *)
(***************************************************************************)
\* Largest number of items of an uploaded list.
MaxItems == 2

\* Items a client may upload, with decimal values.
WireItems == {[id |-> "P1", v |-> <<"4">>], [id |-> "P2", v |-> <<"1", "8">>]}

\* An item whose value is no integer literal.
MalformedItem == [id |-> "P1", v |-> <<"x">>]

\* An item whose value is the empty string: BigInt("") is 0n.
EmptyValueItem == [id |-> "P2", v |-> <<>>]

ItemLists ==
  UNION {[1..n -> WireItems] : n \in 0..MaxItems}
    \cup {<<MalformedItem>>, <<[id |-> "P2", v |-> <<"1", "8">>], MalformedItem>>,
          <<EmptyValueItem>>}

\* POST /upload
Upload(clinic, items) ==
  /\ store' = UploadStore(store, clinic, items)
  /\ uploads' = RecordUpload(uploads, clinic, items)
  /\ net' = [path |-> "/upload", clinic |-> clinic, type |-> "", items |-> items,
             status |-> 200, body |-> <<>>]
  /\ SecretsKept /\ UNCHANGED <<data, run, alg, call>>

\* GET /processed
Processed(clinic, type) ==
  /\ LET resp == ProcessedHandler(store, K, clinic, type)
     IN net' = [path |-> "/processed", clinic |-> clinic, type |-> type,
                items |-> <<>>, status |-> resp.status, body |-> resp.body]
  /\ SecretsKept /\ UNCHANGED <<data, store, run, uploads, alg, call>>

RelayInit == NoClinics /\ ObliviousInit /\ alg = NoAlg /\ call = NoCall

RelayNext ==
  \/ \E clinic \in Clinics, items \in ItemLists : Upload(clinic, items)
  \/ \E clinic \in Clinics, type \in {"own", "peer"} : Processed(clinic, type)

SpecRelay == RelayInit /\ [][RelayNext]_vars

(***************************************************************************)
(* GET /processed item by item.  The handler awaits modPow for every item, *)
(* so the relay may serve an upload between two items of the loop.         *)
(* call.a = <<clinic, type, an upload for the label read came in between>>,*)
(* call.b = the array the loop iterates, call.out = the items pushed.      *)
(***************************************************************************)
\* The label whose stored set the call reads.
ReadLabel(clinic, type) == IF type = "own" THEN clinic ELSE Counterpart(clinic)

\* Mutant: every turn of the loop reads the set stored at that moment.
LoopItemFromStore(base, st, label, k) ==
  IF label \in DOMAIN st /\ k <= Len(st[label]) THEN st[label][k] ELSE base[k]

\* for (const item of base): the k-th item of the array bound to base
LoopItem(base, st, label, k) == base[k]

\* The handler up to its loop: me, other, the soft-fail return, base, out.
ProcessedStart(clinic, type) ==
  /\ call.fn # "reading"
  /\ call' = IF NotBothUploaded(store, clinic)
             \/ ProcessedBase(store, clinic, type) = <<>>
             THEN [fn |-> "returned", a |-> <<clinic, type, FALSE>>,
                   b |-> <<>>, out |-> <<>>]
             ELSE [fn |-> "reading", a |-> <<clinic, type, FALSE>>,
                   b |-> ProcessedBase(store, clinic, type), out |-> <<>>]
  /\ SecretsKept /\ UNCHANGED <<data, store, run, net, uploads, alg>>

\* One turn of the loop: BigInt(item.v), await modPow(v, K), out.push; after
\* the last item the handler returns out.  A value that is no integer literal
\* makes the handler throw.
ProcessedStep ==
  /\ call.fn = "reading"
  /\ LET k == Len(call.out) + 1
         item == LoopItem(call.b, store, ReadLabel(call.a[1], call.a[2]), k)
     IN call' = IF BigInt(item.v) = SyntaxError
                THEN [call EXCEPT !.fn = "threw"]
                ELSE [call EXCEPT
                        !.fn = IF k = Len(call.b) THEN "returned" ELSE "reading",
                        !.out = Append(call.out, ProcessItem(item, K))]
  /\ SecretsKept /\ UNCHANGED <<data, store, run, net, uploads, alg>>

\* POST /upload, served while a call of /processed may be suspended.
UploadBetween(clinic, items) ==
  /\ store' = UploadStore(store, clinic, items)
  /\ call' = IF /\ call.fn = "reading"
                /\ clinic = ReadLabel(call.a[1], call.a[2])
                /\ items # call.b
             THEN [call EXCEPT !.a[3] = TRUE]
             ELSE call
  /\ SecretsKept /\ UNCHANGED <<data, run, net, uploads, alg>>

RelayStepsInit == NoClinics /\ ObliviousInit /\ alg = NoAlg /\ call = NoCall

RelayStepsNext ==
  \/ \E clinic \in Clinics, items \in ItemLists : UploadBetween(clinic, items)
  \/ \E clinic \in Clinics, type \in {"own", "peer"} : ProcessedStart(clinic, type)
  \/ ProcessedStep

SpecRelaySteps == RelayStepsInit /\ [][RelayStepsNext]_vars

(***************************************************************************)
(* Chains of exponentiations of one identifier i (and a second one, j),    *)
(* through computeBlinded, reExponentiate and the relay's v^K mod P        *)
(***************************************************************************)
\* The relay's loop over the items of a blinded map
RelayExp(map, key) ==
  LET items == MapToItems(map)
  IN ItemsToMap([k \in 1..Len(items) |-> ProcessItem(items[k], key)])

AlgInit ==
  /\ \E xa \in RandomBytes, xb \in RandomBytes, xk \in RandomBytes,
        i \in Identifiers, j \in Identifiers :
       alg = [NoAlg EXCEPT !.pc = "start", !.a = randomSecret(xa),
                           !.b = randomSecret(xb), !.k = ObliviousKey(xk),
                           !.i = i, !.j = j]
  /\ NoClinics
  /\ NoOblivious
  /\ call = NoCall

AlgBlind ==
  /\ alg.pc = "start"
  /\ alg' = [alg EXCEPT !.pc = "blinded",
                        !.ia = computeBlinded(<<alg.i>>, alg.a),
                        !.ib = computeBlinded(<<alg.i>>, alg.b),
                        !.jb = computeBlinded(<<alg.j>>, alg.b),
                        !.ik = computeBlinded(<<alg.i>>, alg.k)]
  /\ SecretsKept /\ UNCHANGED <<data, store, run, net, uploads, call>>

AlgReExp ==
  /\ alg.pc = "blinded"
  /\ alg' = [alg EXCEPT !.pc = "reexp",
                        !.iab = reExponentiate(alg.ia, alg.b),
                        !.iba = reExponentiate(alg.ib, alg.a),
                        !.ika = reExponentiate(alg.ik, alg.a)]
  /\ SecretsKept /\ UNCHANGED <<data, store, run, net, uploads, call>>

AlgRelay ==
  /\ alg.pc = "reexp"
  /\ alg' = [alg EXCEPT !.pc = "relayed",
                        !.iaK = RelayExp(alg.ia, alg.k),
                        !.jbK = RelayExp(alg.jb, alg.k)]
  /\ SecretsKept /\ UNCHANGED <<data, store, run, net, uploads, call>>

AlgFinal ==
  /\ alg.pc = "relayed"
  /\ alg' = [alg EXCEPT !.pc = "final",
                        !.iaKb = reExponentiate(alg.iaK, alg.b),
                        !.jbKa = reExponentiate(alg.jbK, alg.a)]
  /\ SecretsKept /\ UNCHANGED <<data, store, run, net, uploads, call>>

AlgNext == AlgBlind \/ AlgReExp \/ AlgRelay \/ AlgFinal

SpecAlg == AlgInit /\ [][AlgNext]_vars

(***************************************************************************)
(* Calls of intersect and of randomSecret on drawn arguments               *)
(***************************************************************************)
\* Largest number of entries of a map passed to intersect.
MaxEntries == 2

\* Exponentiated values of the entries, two of them equal to none of the others.
CallValues == {1, 2, 18}

\* The maps of up to MaxEntries entries, their keys distinct.
CallMaps ==
  {m \in UNION {[1..n -> Identifiers \X CallValues] : n \in 0..MaxEntries} :
     \A k1, k2 \in 1..Len(m) : m[k1][1] = m[k2][1] => k1 = k2}

CallIntersect(a, b) ==
  /\ call.fn = "none"
  /\ call' = [fn |-> "intersect", a |-> a, b |-> b, out |-> intersect(a, b)]
  /\ SecretsKept /\ UNCHANGED <<data, store, run, net, uploads, alg>>

CallRandomSecret(bytes) ==
  /\ call.fn = "none"
  /\ call' = [fn |-> "randomSecret", a |-> <<bytes>>, b |-> <<>>,
              out |-> <<randomSecret(bytes)>>]
  /\ SecretsKept /\ UNCHANGED <<data, store, run, net, uploads, alg>>

CallRandomSecretRandBetween(r) ==
  /\ call.fn = "none"
  /\ call' = [fn |-> "randomSecretRandBetween", a |-> <<r>>, b |-> <<>>,
              out |-> <<randomSecretRandBetween(r)>>]
  /\ SecretsKept /\ UNCHANGED <<data, store, run, net, uploads, alg>>

CallComputeBlinded(ids, sec) ==
  /\ call.fn = "none"
  /\ call' = [fn |-> "computeBlinded", a |-> ids, b |-> <<sec>>,
              out |-> computeBlinded(ids, sec)]
  /\ SecretsKept /\ UNCHANGED <<data, store, run, net, uploads, alg>>

CallReExponentiate(map, sec) ==
  /\ call.fn = "none"
  /\ call' = [fn |-> "reExponentiate", a |-> map, b |-> <<sec>>,
              out |-> reExponentiate(map, sec)]
  /\ SecretsKept /\ UNCHANGED <<data, store, run, net, uploads, alg>>

CallsInit == NoClinics /\ NoOblivious /\ alg = NoAlg /\ call = NoCall

\* One call is made on the drawn arguments.
CallsNext ==
  /\ call.fn = "none"
  /\ \/ \E a \in CallMaps, b \in CallMaps : CallIntersect(a, b)
     \/ \E bytes \in RandomBytes : CallRandomSecret(bytes)
     \/ \E r \in RandomBytes : CallRandomSecretRandBetween(r)
     \/ \E ids \in IdSeqs, bytes \in RandomBytes :
          CallComputeBlinded(ids, randomSecret(bytes))
     \/ \E map \in CallMaps, bytes \in RandomBytes :
          CallReExponentiate(map, randomSecret(bytes))

SpecCalls == CallsInit /\ [][CallsNext]_vars

(***************************************************************************)
(* Properties                                                              *)
(***************************************************************************)
TrueOverlap == IdSet("A") \cap IdSet("B")

DistinctIds(c) == Cardinality(IdSet(c)) = Len(data[c])

\* C1: commutativity of blinding and re-exponentiation.  For every identifier
\* i and secrets a, b, the value reExponentiate(computeBlinded([i], a), b) gives
\* to i equals the one reExponentiate(computeBlinded([i], b), a) gives to i.
CommutativityLaw ==
  alg.pc \in {"reexp", "relayed", "final"} =>
    /\ MapHas(alg.iab, alg.i) /\ MapHas(alg.iba, alg.i)
    /\ MapGet(alg.iab, alg.i) = MapGet(alg.iba, alg.i)

CommutativityWitness ==
  /\ alg.pc = "reexp"
  /\ alg.a # alg.b
  /\ MapGet(alg.ia, alg.i) # MapGet(alg.ib, alg.i)
  /\ MapGet(alg.iab, alg.i) # 1

\* C2: a completed two-party /run over datasets of distinct identifiers reports
\* exactly the identifiers present in both datasets (no false positive, no false
\* negative), and size is their number; identical sets give the whole set and
\* disjoint sets the empty list with size 0.
TwoPartyRunExact ==
  \A c \in Clinics :
    (/\ run[c].pc = "done"
     /\ run[c].result.kind = "intersection"
     /\ DistinctIds("A") /\ DistinctIds("B"))
    => /\ SeqToSet(run[c].result.intersection) = TrueOverlap
       /\ run[c].result.size = Cardinality(TrueOverlap)

TwoPartyRunWitness ==
  /\ run["A"].pc = "done"
  /\ run["A"].result.kind = "intersection"
  /\ DistinctIds("A") /\ DistinctIds("B")
  /\ Len(data["A"]) = 2 /\ Len(data["B"]) = 2
  /\ run["A"].result.size = 1
  /\ secret["A"] # secret["B"]

\* The list the two-party /run of clinic c computes from the same data and secrets.
TwoPartyIds(c) ==
  intersect(reExponentiate(ItemsToMap(BlindedHandler(Counterpart(c)).body), secret[c]),
            ItemsToMap(ReexpHandler(Counterpart(c),
                         MapToItems(computeBlinded(DataIds(c), secret[c]))).body))

\* C3: a completed relay-mode /run that found both blinded sets stored at the
\* relay reports exactly the identifiers present in both datasets, for any
\* secrets a, b and relay secret K: the same set and size as the two-party run.
RelayRunExact ==
  \A c \in Clinics :
    (/\ run[c].pc = "done"
     /\ run[c].result.kind = "intersection"
     /\ ~run[c].softFailed
     /\ DistinctIds("A") /\ DistinctIds("B"))
    => /\ SeqToSet(run[c].result.intersection) = TrueOverlap
       /\ run[c].result.size = Cardinality(TrueOverlap)
       /\ SeqToSet(run[c].result.intersection) = SeqToSet(TwoPartyIds(c))
       /\ run[c].result.size = Len(TwoPartyIds(c))

\* C4: three-secret commutativity.  The value of i after a, K, b equals the
\* value of j after b, K, a precisely when i = j; and applying a and K to the
\* hashed identifier in either order gives the same value.
ThreeSecretCommutativity ==
  alg.pc = "final" =>
    /\ (MapGet(alg.iaKb, alg.i) = MapGet(alg.jbKa, alg.j)) <=> (alg.i = alg.j)
    /\ MapGet(alg.iaK, alg.i) = MapGet(alg.ika, alg.i)

\* C5: no request or response body exchanged between the two clinics carries
\* an identifier of the sending clinic's dataset in plaintext.
NoPlaintextToPeer ==
  \A c \in Clinics :
    run[c].trip.to \in Clinics =>
      /\ \A k \in 1..Len(run[c].trip.req) : run[c].trip.req[k].id \notin IdSet(c)
      /\ \A k \in 1..Len(run[c].trip.resp) :
           run[c].trip.resp[k].id \notin IdSet(run[c].trip.to)

\* C6: the relay's store and every upload body it receives hold no identifier
\* of a clinic's dataset.
RelayNeverSeesPlaintext ==
  /\ \A l \in DOMAIN store : \A k \in 1..Len(store[l]) :
       store[l][k].id \notin (IdSet("A") \cup IdSet("B"))
  /\ \A c \in Clinics :
       run[c].trip.path = "/upload" =>
         \A k \in 1..Len(run[c].trip.req) :
           run[c].trip.req[k].id \notin (IdSet("A") \cup IdSet("B"))

\* C7: a relay-mode run in which a fetch-processed call returned the empty
\* soft-fail result never ends by returning an intersection result.
SoftFailMeansRetry ==
  \A c \in Clinics :
    (run[c].pc = "done" /\ run[c].softFailed) => run[c].result.kind # "intersection"

\* C8: a fetch-processed call for label L with selector peer, made while the
\* counterpart of L has uploaded nothing, is answered normally with an empty
\* list, and the relay goes on serving requests.
RelaySoftFail ==
  (/\ net.path = "/processed"
   /\ net.type = "peer"
   /\ Counterpart(net.clinic) \notin DOMAIN store)
  => /\ net.status = 200
     /\ net.body = <<>>
     /\ ENABLED RelayNext

RelaySoftFailWitness ==
  /\ net.path = "/processed"
  /\ net.type = "peer"
  /\ Counterpart(net.clinic) \notin DOMAIN store
  /\ net.clinic \in DOMAIN store
  /\ Len(store[net.clinic]) > 0
  /\ net.body = <<>>

\* b to the power e, with b^0 = 1 for every b (also 0^0, as bigint has it).
Power(b, e) == IF e = 0 THEN 1 ELSE b ^ e

\* The stored items, each with its id and its value raised to K modulo P.
IsRaised(body, items) ==
  /\ Len(body) = Len(items)
  /\ \A k \in 1..Len(items) :
       /\ body[k].id = items[k].id
       /\ BigInt(body[k].v) = Power(BigInt(items[k].v), K) % P

\* C9 as stated: getProcessed(L, own) returns the stored items of L raised to K
\* whenever L has uploaded (decimal values), whether or not the counterpart has;
\* getProcessed(L, peer) returns the counterpart's items raised to K whenever
\* the counterpart has uploaded.
ProcessedNeedsOnlySelectedSet ==
  net.path = "/processed" =>
    /\ (/\ net.type = "own"
        /\ net.clinic \in DOMAIN store
        /\ ItemsParse(store[net.clinic]))
       => IsRaised(net.body, store[net.clinic])
    /\ (/\ net.type = "peer"
        /\ Counterpart(net.clinic) \in DOMAIN store
        /\ ItemsParse(store[Counterpart(net.clinic)]))
       => IsRaised(net.body, store[Counterpart(net.clinic)])

\* C9 as amended: once both L and its counterpart have uploaded, own returns
\* the stored items of L and peer those of the counterpart (decimal values),
\* each with its id and the value v^K mod P; while either upload is missing,
\* both selectors return the empty list.
ProcessedNeedsBothSets ==
  net.path = "/processed" =>
    /\ NotBothUploaded(store, net.clinic) => (net.status = 200 /\ net.body = <<>>)
    /\ (/\ ~NotBothUploaded(store, net.clinic)
        /\ net.type = "own"
        /\ ItemsParse(store[net.clinic]))
       => (net.status = 200 /\ IsRaised(net.body, store[net.clinic]))
    /\ (/\ ~NotBothUploaded(store, net.clinic)
        /\ net.type = "peer"
        /\ ItemsParse(store[Counterpart(net.clinic)]))
       => (net.status = 200 /\ IsRaised(net.body, store[Counterpart(net.clinic)]))

ProcessedNeedsBothSetsWitness ==
  /\ net.path = "/processed"
  /\ net.type = "own"
  /\ ~NotBothUploaded(store, net.clinic)
  /\ ItemsParse(store[net.clinic])
  /\ Len(store[net.clinic]) = 2
  /\ store[net.clinic] # store[Counterpart(net.clinic)]
  /\ K >= 2
  /\ Len(net.body) = 2

\* C10: the set stored for a label is exactly the item list of the most recent
\* upload for it, nothing of an earlier upload remains, and uploading the same
\* list twice leaves the state of uploading it once.
LastWriteWins ==
  /\ DOMAIN store = DOMAIN uploads
  /\ \A l \in DOMAIN store : store[l] = uploads[l].items
  /\ net.path = "/upload" => store[net.clinic] = net.items
  /\ net.path = "/upload" => UploadStore(store, net.clinic, net.items) = store

LastWriteWinsWitness ==
  \E l \in DOMAIN store :
    /\ uploads[l].overwrote
    /\ net.path = "/upload" /\ net.clinic = l
    /\ Len(store[l]) = 1
    /\ Counterpart(l) \in DOMAIN store

\* C11: a run one of whose round trips (the upload to the relay included) was
\* unreachable or answered without success ends with an explicit error result,
\* never with an object carrying intersection, size and averageAge.
NetworkFailureAborts ==
  \A c \in Clinics :
    (run[c].pc = "done" /\ run[c].netFailed) => run[c].result.kind = "error"

\* C12: a completed run whose list of matched ages is empty, that is a call of
\* average on the empty sequence, returns null as averageAge, never NaN or
\* another number.
EmptyAggregateIsNull ==
  \A c \in Clinics :
    (/\ run[c].pc = "done"
     /\ run[c].result.kind = "intersection"
     /\ AgesOf(data[c], run[c].result.intersection) = <<>>)
    => run[c].result.averageAge = Null

\* The ages of the records of clinic c whose identifier is in both datasets.
OverlapAges(c) ==
  LET matched == SelectSeq(data[c], LAMBDA d : d.id \in TrueOverlap)
  IN [k \in 1..Len(matched) |-> matched[k].age]

\* C13: a completed relay-mode run that found both blinded sets at the relay,
\* over datasets of distinct identifiers with a non-empty overlap, returns as
\* averageAge the sum of the ages of the running clinic's records in the true
\* overlap divided by the number of identifiers in the overlap.
AggregateCorrect ==
  \A c \in Clinics :
    (/\ run[c].pc = "done"
     /\ run[c].result.kind = "intersection"
     /\ ~run[c].softFailed
     /\ DistinctIds("A") /\ DistinctIds("B")
     /\ TrueOverlap # {})
    => run[c].result.averageAge
         = Quotient(SumSeq(OverlapAges(c)), Cardinality(TrueOverlap))

\* The entries of the scanned map whose value occurs in the indexed map.
Hits(a, b) == SelectSeq(b, LAMBDA e : \E i \in 1..Len(a) : a[i][2] = e[2])

\* The key of the first entry of a that carries the value v.
FirstKeyOf(a, v) ==
  a[CHOOSE i \in 1..Len(a) :
      a[i][2] = v /\ \A j \in 1..(i - 1) : a[j][2] # v][1]

\* C14: for every value of the scanned map that occurs in the indexed map,
\* intersect reports the identifier inserted first with that value into the
\* indexed map, whatever the insertion order.
FirstInsertedWins ==
  call.fn = "intersect" =>
    call.out = [k \in 1..Len(Hits(call.a, call.b)) |->
                  FirstKeyOf(call.a, Hits(call.a, call.b)[k][2])]

\* C15: every identifier intersect(a, b) returns is a key of a whose value is
\* the value of some entry of b; a key of b is returned only if it is such a
\* key of a.
IntersectReturnsIndexedLabels ==
  call.fn = "intersect" =>
    \A k \in 1..Len(call.out) :
      \E i \in 1..Len(call.a) :
        /\ call.a[i][1] = call.out[k]
        /\ \E j \in 1..Len(call.b) : call.b[j][2] = call.a[i][2]

IntersectReturnsIndexedLabelsWitness ==
  /\ call.fn = "intersect"
  /\ Len(call.a) = 2 /\ Len(call.b) = 1
  /\ MapKeys(call.a) \cap MapKeys(call.b) = {}
  /\ Len(call.out) = 1

\* C17: for every value of the random source, randomSecret (either utils.ts)
\* returns a secret in [2, P - 2].
SecretInRange ==
  call.fn \in {"randomSecret", "randomSecretRandBetween"} =>
    call.out[1] \in 2..(P - 2)

\* C16: the exponent of each clinic and the key of the relay, drawn once at
\* start, have the same value in every later state: no step of /blinded,
\* /reexp, /run, /upload or /processed changes them.
SecretsImmutable == [][secret' = secret /\ K' = K]_vars

SecretsImmutableWitness ==
  /\ \A c \in Clinics : run[c].pc = "done" /\ run[c].result.kind = "intersection"
  /\ DOMAIN store = Clinics
  /\ secret["A"] # secret["B"]
  /\ K >= 2

\* C18: a started run, suspended at a round trip, eventually reaches its end
\* (a result or a failure), also when the peer never answers.
RunsTerminate ==
  \A c \in Clinics : (run[c].pc = "gotPeer") ~> (run[c].pc = "done")

\* C19: the response of a fetch-processed call, whatever uploads for the label
\* it reads were served while it was suspended between items, is the
\* re-exponentiation of one uploaded set as a whole: the set that was stored
\* when the call began.
AtomicRead ==
  call.fn = "returned" => IsRaised(call.out, call.b)

AtomicReadWitness ==
  /\ call.fn = "returned"
  /\ call.a[3]
  /\ Len(call.b) = 2
  /\ Len(store[ReadLabel(call.a[1], call.a[2])]) = 2
  /\ \A k \in 1..2 : store[ReadLabel(call.a[1], call.a[2])][k] # call.b[k]
  /\ K >= 2

\* The items are the identifiers blinded with the exponent e: each carries
\* id and v only, v the decimal form of G^(hash(id) * e) mod P (G has order
\* (P - 1) / 2, which keeps the power small).
IsBlinded(items, e) ==
  \A k \in 1..Len(items) :
    /\ DOMAIN items[k] = {"id", "v"}
    /\ BigInt(items[k].v)
         = (G ^ ((hashToBigInt(items[k].id) * e) % ((P - 1) \div 2))) % P

\* The items of body are those of items, each value raised to e modulo P.
IsRaisedTo(body, items, e) ==
  /\ Len(body) = Len(items)
  /\ \A k \in 1..Len(items) :
       /\ DOMAIN body[k] = {"id", "v"}
       /\ body[k].id = items[k].id
       /\ BigInt(body[k].v) = Power(BigInt(items[k].v), e) % P

\* C20: no body emitted by a clinic or by the relay carries the exponent of
\* its sender: every item sent holds an identifier and a value only, and the
\* value is a modular power with the sender's exponent in the exponent (the
\* blinded identifier in an upload, the received value raised to K in the
\* answer of /processed, the received value raised to the peer's exponent in
\* the answer of /reexp); the reply of /run holds identifiers only.
SecretsStayInside ==
  \A c \in Clinics :
    LET t == run[c].trip IN
    /\ t.path = "/upload" => IsBlinded(t.req, secret[c])
    /\ (t.path = "/processed?type=peer" /\ t.status = 200)
       => (t.resp = <<>> \/ IsRaisedTo(t.resp, store[Counterpart(c)], K))
    /\ (t.path = "/processed?type=own" /\ t.status = 200)
       => (t.resp = <<>> \/ IsRaisedTo(t.resp, store[c], K))
    /\ (t.path = "/reexp" /\ t.status = 200)
       => /\ t.req = <<>> \/ IsRaisedTo(t.req, store[c], K)
          /\ IsRaisedTo(t.resp, t.req, secret[t.to])
    /\ \A k \in 1..Len(run[c].result.intersection) :
         run[c].result.intersection[k] \in IdSet("A") \cup IdSet("B")

SecretsStayInsideWitness ==
  /\ run["A"].trip.path = "/reexp"
  /\ run["A"].trip.status = 200
  /\ Len(run["A"].trip.resp) = 2
  /\ run["B"].trip.path = "/processed?type=peer"
  /\ Len(run["B"].trip.resp) = 2
  /\ secret["A"] # secret["B"]
  /\ K >= 2

\* C21: the key of the relay lies in [2, P - 2] for every value of the random
\* source; in particular it is neither 0 (every value raised to it is 1) nor 1
\* (every value raised to it is unchanged).
RelayKeyInRange == K \in 2..(P - 2)

\* A decimal integer literal: one digit or more.
IsIntegerLiteral(s) == Len(s) >= 1 /\ \A k \in 1..Len(s) : IsDigit(s[k])

\* C22: /processed, asked for a stored list that holds a value which is no
\* integer, answers with a failure and not with a list of items.
MalformedInputFails ==
  (/\ net.path = "/processed"
   /\ ~NotBothUploaded(store, net.clinic)
   /\ \E k \in 1..Len(ProcessedBase(store, net.clinic, net.type)) :
        ~IsIntegerLiteral(ProcessedBase(store, net.clinic, net.type)[k].v))
  => net.status # 200

\* C23: a relay-mode run takes its steps in the order LocalBlind and
\* UploadToRelay, FetchPeerProcessed, FetchOwnProcessed, SendOwnProcessedToPeer
\* and ReceivePeerFinal, Intersect and Aggregate.  Each step begins where the
\* response of the previous round trip has arrived, a run gives up only with an
\* error, and an intersection is returned only after the answer of /reexp, with
\* the peer's final set already held.
RelayStepOrder ==
  [][\A c \in Clinics :
       run'[c].pc # run[c].pc =>
         \/ /\ run[c].pc = "idle" /\ run'[c].pc = "uploaded"
            /\ run'[c].trip.path = "/upload"
            /\ IsBlinded(run'[c].trip.req, secret[c])
            /\ {run'[c].trip.req[k].id : k \in 1..Len(run'[c].trip.req)} = IdSet(c)
         \/ /\ run[c].pc = "uploaded" /\ run'[c].pc = "gotPeer"
            /\ run[c].trip.path = "/upload"
            /\ run'[c].trip.path = "/processed?type=peer"
         \/ /\ run[c].pc = "gotPeer" /\ run'[c].pc = "gotOwn"
            /\ run[c].trip.path = "/processed?type=peer"
            /\ run'[c].trip.path = "/processed?type=own"
         \/ /\ run[c].pc = "gotOwn" /\ run'[c].pc = "done"
            /\ run[c].trip.path = "/processed?type=own"
            /\ run'[c].result.kind = "intersection"
            /\ run'[c].trip.path = "/reexp" /\ run'[c].trip.status = 200
         \/ /\ run[c].pc \in {"idle", "uploaded", "gotPeer", "gotOwn"}
            /\ run'[c].pc = "done"
            /\ run'[c].result.kind = "error"
         \/ /\ run[c].pc = "done" /\ run'[c].pc = "idle"]_vars

RelayStepOrderWitness ==
  /\ run["A"].pc = "done"
  /\ run["A"].result.kind = "intersection"
  /\ run["A"].result.size >= 1
  /\ run["B"].pc = "gotPeer"
  /\ K >= 2

\* C24: a two-party run computes its own blinded set (LocalBlind) before it
\* fetches the peer's blinded set and before it re-exponentiates it.
LocalBlindFirst ==
  \A c \in Clinics :
    \A k \in 1..Len(run[c].steps) :
      run[c].steps[k] \in {"FetchPeerBlinded", "LocalReExponentiate"}
        => \E j \in 1..(k - 1) : run[c].steps[j] = "LocalBlind"

\* C25: the list returned by intersect holds each identifier at most once,
\* so its length is the number of distinct matched identifiers.
IntersectResultDistinct ==
  call.fn = "intersect"
    => \A j, k \in 1..Len(call.out) : call.out[j] = call.out[k] => j = k

\* Both labels hold a non-empty set in the store st.
BothNonEmpty(st) == \A l \in Clinics : l \in DOMAIN st /\ Len(st[l]) > 0

\* C26: the relay never deletes a stored set: a label stays in the store, and
\* a stored non-empty set becomes empty only through an upload of the empty
\* list for its label; so once both labels hold a non-empty set of decimal
\* values, every fetch-processed call, for either label and either selector,
\* returns a non-empty list, as long as only non-empty sets are uploaded.
RelayAvailabilityMonotonic ==
  [][/\ \A l \in DOMAIN store :
          /\ l \in DOMAIN store'
          /\ (Len(store[l]) > 0 /\ Len(store'[l]) = 0)
               => (net'.path = "/upload" /\ net'.clinic = l /\ net'.items = <<>>)
     /\ (/\ net'.path = "/processed"
         /\ BothNonEmpty(store)
         /\ ItemsParse(ProcessedBase(store, net'.clinic, net'.type)))
        => (net'.status = 200 /\ Len(net'.body) > 0)]_vars

RelayAvailabilityMonotonicWitness ==
  /\ net.path = "/processed"
  /\ net.type = "peer"
  /\ BothNonEmpty(store)
  /\ \A l \in Clinics : uploads[l].overwrote
  /\ net.status = 200
  /\ Len(net.body) = 1

\* C27: the store of the relay changes only through upload and only at the
\* uploaded label: an upload leaves the set stored under every other label
\* as it was, and a fetch-processed call leaves the whole store as it was.
RelayStoreFrame ==
  [][/\ net'.path = "/processed" => store' = store
     /\ net'.path = "/upload"
          => /\ DOMAIN store' = (DOMAIN store) \cup {net'.clinic}
             /\ \A l \in (DOMAIN store) \ {net'.clinic} : store'[l] = store[l]
     /\ store' # store => net'.path = "/upload"]_vars

RelayStoreFrameWitness ==
  /\ net.path = "/upload"
  /\ net.items = <<>>
  /\ Counterpart(net.clinic) \in DOMAIN store
  /\ Len(store[Counterpart(net.clinic)]) = 2
  /\ uploads[net.clinic].overwrote

\* C28: reExponentiate returns a map with exactly the keys of its input map,
\* in their order, each mapped to its input value raised to the secret modulo
\* P; computeBlinded returns exactly one entry per distinct identifier of its
\* input, mapped to G^(hash(identifier) * secret) mod P.
AssociationPreserved ==
  /\ call.fn = "reExponentiate" =>
       /\ Len(call.out) = Len(call.a)
       /\ \A k \in 1..Len(call.a) :
            /\ call.out[k][1] = call.a[k][1]
            /\ call.out[k][2] = Power(call.a[k][2], call.b[1]) % P
  /\ call.fn = "computeBlinded" =>
       /\ MapKeys(call.out) = SeqToSet(call.a)
       /\ Len(call.out) = Cardinality(SeqToSet(call.a))
       /\ \A k \in 1..Len(call.out) :
            call.out[k][2]
              = (G ^ ((hashToBigInt(call.out[k][1]) * call.b[1]) % ((P - 1) \div 2))) % P

AssociationPreservedWitness ==
  /\ call.fn = "computeBlinded"
  /\ Len(call.a) = 2
  /\ call.a[1] = call.a[2]
  /\ Len(call.out) = 1
  /\ call.out[1][2] > 1

====
